---- MODULE Spec2Model ----
(***************************************************************************)
(* A model of get-countries-json.py: one fetch of the per-country counts,  *)
(* the canonical and the dated snapshot file, the aggregation of every     *)
(* snapshot of json-history/ into countries-history.csv, and the top-10    *)
(* selection for the chart.                                                *)
(*                                                                         *)
(* Text is modelled as a sequence of atoms: single characters where the    *)
(* code looks at characters (digits, "-", "_", "/"), whole words elsewhere.*)
(* A file is a sequence of chunks, one per JSON token group the writer     *)
(* emits: the opening bracket, one chunk per object, the closing bracket.  *)
(***************************************************************************)
EXTENDS Integers, Sequences, FiniteSets, TLC

\* ------------------------------------------------------------------ bounds

\* Calendar days the clock can show.
NumDays == 3

\* Invocations of the script in one behaviour.
MaxRuns == 3

\* Files in a json-history/ that the cells are run over as found.
MaxFiles == 2

\* Times the cells are run over one directory.
MaxPasses == 2

\* ------------------------------------------------------- program constants

\* .head(10)
TopN == 10

\* status_code == 200
HttpOk == 200

\* ----------------------------------------------------------------- text

DigitChars == <<"0", "1", "2", "3", "4", "5", "6", "7", "8", "9">>

IsDigit(c) == \E i \in 1..10 : DigitChars[i] = c

DigitVal(c) == (CHOOSE i \in 1..10 : DigitChars[i] = c) - 1

\* %Y: the year, four digits
Pad4(n) ==
    << DigitChars[((n \div 1000) % 10) + 1], DigitChars[((n \div 100) % 10) + 1],
       DigitChars[((n \div 10) % 10) + 1], DigitChars[(n % 10) + 1] >>

\* %m, %d: two digits, zero-padded
Pad2(n) == << DigitChars[((n \div 10) % 10) + 1], DigitChars[(n % 10) + 1] >>

\* strftime('%Y-%m-%d') of a date <<year, month, day>>
StrfDate(d) == Pad4(d[1]) \o <<"-">> \o Pad2(d[2]) \o <<"-">> \o Pad2(d[3])

\* str.split(sep): the pieces of s between the occurrences of sep
RECURSIVE Split(_, _)
Split(s, sep) ==
    IF \A i \in 1..Len(s) : s[i] # sep
    THEN << s >>
    ELSE LET k == CHOOSE i \in 1..Len(s) :
                     s[i] = sep /\ \A j \in 1..(i - 1) : s[j] # sep
         IN  << SubSeq(s, 1, k - 1) >> \o Split(SubSeq(s, k + 1, Len(s)), sep)

\* x['fname'].str.split('/').str[-1].str.split('_').str[0]
DatePrefix(fname) ==
    LET segs == Split(fname, "/")
    IN  Split(segs[Len(segs)], "_")[1]

NaT == << 0, 0, 0 >>

\* pd.to_datetime of a YYYY-MM-DD string: the date, or NaT when the text is
\* no date (pandas raises there).
ToDatetime(s) ==
    IF /\ Len(s) = 10
       /\ s[5] = "-" /\ s[8] = "-"
       /\ \A i \in {1, 2, 3, 4, 6, 7, 9, 10} : IsDigit(s[i])
    THEN LET y == DigitVal(s[1]) * 1000 + DigitVal(s[2]) * 100
                    + DigitVal(s[3]) * 10 + DigitVal(s[4])
             m == DigitVal(s[6]) * 10 + DigitVal(s[7])
             d == DigitVal(s[9]) * 10 + DigitVal(s[10])
         IN  IF m \in 1..12 /\ d \in 1..31 /\ y >= 1 THEN << y, m, d >> ELSE NaT
    ELSE NaT

DateLess(a, b) ==
    \/ a[1] < b[1]
    \/ a[1] = b[1] /\ a[2] < b[2]
    \/ a[1] = b[1] /\ a[2] = b[2] /\ a[3] < b[3]

\* The date the clock shows on day n of the model: 2024-12-30, 2024-12-31,
\* 2025-01-01, ... (datetime.now() reads it).
DateOf(n) == IF n <= 2 THEN << 2024, 12, 29 + n >> ELSE << 2025, 1, n - 2 >>

\* f'json-history/{datetime.now().strftime('%Y-%m-%d_')}countries.json'
HistoryFilePath(n) ==
    << "json-history", "/" >> \o StrfDate(DateOf(n)) \o << "_", "countries", ".json" >>

\* The name of a path inside its directory.
BaseName(path) == LET segs == Split(path, "/") IN segs[Len(segs)]

\* ----------------------------------------------------------------- JSON

\* The order Python gives the keys of an object under sort_keys = True.
KeyOrder == << "country", "error", "extra", "location_count" >>

\* The order Python gives the country names (str comparison).
CountryOrder ==
    << "AT", "AU", "BE", "CA", "CH", "DE", "ES", "FR", "GB", "NL", "SE", "US", "ZA" >>

CountryRank(c) == CHOOSE i \in 1..Len(CountryOrder) : CountryOrder[i] = c

Open == [t |-> "[", kv |-> << >>]
Close == [t |-> "]", kv |-> << >>]

\* One object, keys sorted: the sequence of its (key, value) pairs.
DumpObject(obj) ==
    LET keys == SelectSeq(KeyOrder, LAMBDA k : k \in DOMAIN obj)
    IN  [t |-> "{}", kv |-> [i \in 1..Len(keys) |-> << keys[i], obj[keys[i]] >>]]

\* json.dump(countries_json, out_file, sort_keys = True, indent = 4): the text
\* written, one chunk per bracket and per object.
JsonDump(value) ==
    << Open >> \o [i \in 1..Len(value) |-> DumpObject(value[i])] \o << Close >>

\* Whether a file's text is one JSON list of objects.
IsJsonList(data) ==
    /\ Len(data) >= 2
    /\ data[1] = Open
    /\ data[Len(data)] = Close
    /\ \A i \in 2..(Len(data) - 1) : data[i].t = "{}"

LoadObject(chunk) ==
    [k \in {chunk.kv[i][1] : i \in 1..Len(chunk.kv)} |->
        chunk.kv[CHOOSE i \in 1..Len(chunk.kv) : chunk.kv[i][1] = k][2]]

\* The objects of a JSON list file.
JsonLoad(data) == [i \in 1..(Len(data) - 2) |-> LoadObject(data[i + 1])]

\* pd.read_json(fname)[["country", "location_count"]] works: the file parses
\* and both columns exist. (The payloads of this model have a field in every
\* object or in none, so no cell is NaN.)
Readable(data) ==
    /\ IsJsonList(data)
    /\ \E i \in 2..(Len(data) - 1) : \E j \in 1..Len(data[i].kv) : data[i].kv[j][1] = "country"
    /\ \E i \in 2..(Len(data) - 1) :
           \E j \in 1..Len(data[i].kv) : data[i].kv[j][1] = "location_count"

\* pd.read_json(fname)[["country", "location_count"]].assign(fname=fname)
ReadFrame(data, fname) ==
    LET objs == JsonLoad(data)
    IN  [i \in 1..Len(objs) |->
            [country |-> objs[i].country,
             location_count |-> objs[i].location_count,
             fname |-> fname]]

\* ------------------------------------------------------------ data frames

RECURSIVE Concat(_)
\* pd.concat(countries_dfs): the frames' rows, in the frames' order
Concat(dfs) == IF dfs = << >> THEN << >> ELSE Head(dfs) \o Concat(Tail(dfs))

\* .assign(date=...).drop(columns='fname')
WithDate(rows) ==
    [i \in 1..Len(rows) |->
        [country |-> rows[i].country,
         location_count |-> rows[i].location_count,
         date |-> ToDatetime(DatePrefix(rows[i].fname))]]

\* The order of a sort on the date alone.
RowLessByDate(a, b) == DateLess(a.date, b.date)

\* The order of sort_values(['date', 'country']).
RowLess(a, b) ==
    \/ DateLess(a.date, b.date)
    \/ a.date = b.date /\ CountryRank(a.country) < CountryRank(b.country)

\* The table left as concatenated.
SortValuesSkipped(rows) == rows

\* .sort_values(['date', 'country']): pandas sorts on several columns with a
\* stable sort, so rows with equal keys keep the order they had.
SortValues(rows) ==
    LET n == Len(rows)
        pos == [i \in 1..n |->
                   1 + Cardinality({j \in 1..n :
                           \/ RowLess(rows[j], rows[i])
                           \/ ~RowLess(rows[i], rows[j]) /\ j < i})]
    IN  [k \in 1..n |-> rows[CHOOSE i \in 1..n : pos[i] = k]]

\* countries_history.to_csv('countries-history.csv', index=False): the header,
\* then one line per row, the date written as YYYY-MM-DD.
ToCsv(rows) ==
    << << <<"country">>, <<"location_count">>, <<"date">> >> >>
    \o [i \in 1..Len(rows) |->
           << <<rows[i].country>>, <<rows[i].location_count>>, StrfDate(rows[i].date) >>]

\* -------------------------------------------------------------- the API

\* Bodies of the endpoint: a list of per-country objects. Twelve countries,
\* the tenth and eleventh by count equal.
Payload12 ==
    << [country |-> "NL", location_count |-> 30, extra |-> 1],
       [country |-> "US", location_count |-> 900, extra |-> 2],
       [country |-> "CH", location_count |-> 10, extra |-> 3],
       [country |-> "DE", location_count |-> 60, extra |-> 4],
       [country |-> "AT", location_count |-> 5, extra |-> 5],
       [country |-> "CA", location_count |-> 80, extra |-> 6],
       [country |-> "BE", location_count |-> 10, extra |-> 7],
       [country |-> "GB", location_count |-> 70, extra |-> 8],
       [country |-> "FR", location_count |-> 50, extra |-> 9],
       [country |-> "AU", location_count |-> 40, extra |-> 10],
       [country |-> "SE", location_count |-> 20, extra |-> 11],
       [country |-> "ES", location_count |-> 15, extra |-> 12] >>

Payload3a ==
    << [country |-> "ZA", location_count |-> 3],
       [country |-> "US", location_count |-> 800],
       [country |-> "CA", location_count |-> 75] >>

Payload3b ==
    << [location_count |-> 810, country |-> "US"],
       [location_count |-> 75, country |-> "CA"],
       [location_count |-> 4, country |-> "ZA"] >>

\* Valid JSON that is no table of countries: an empty list, an error object.
PayloadEmpty == << >>

PayloadError == << [error |-> "Failed to find any locations"] >>

GoodPayloads == { Payload3a, Payload3b }

Payloads == GoodPayloads \cup { PayloadEmpty, PayloadError }

\* What requests.get can come back with: an exception (raised), or a status
\* and a body that is JSON (is_json, its value) or is not.
NoResponse == [raised |-> FALSE, status |-> 0, is_json |-> FALSE, value |-> << >>]

Responses ==
    { [raised |-> FALSE, status |-> HttpOk, is_json |-> TRUE, value |-> p] : p \in Payloads }
    \cup { [raised |-> TRUE, status |-> 0, is_json |-> FALSE, value |-> << >>],
           [raised |-> FALSE, status |-> 500, is_json |-> TRUE, value |-> PayloadError],
           [raised |-> FALSE, status |-> HttpOk, is_json |-> FALSE, value |-> << >>] }

\* ----------------------------------------------------------------- files

NoFile == [exists |-> FALSE, data |-> << >>]

File(data) == [exists |-> TRUE, data |-> data]

EmptyDir == [n \in {} |-> << >>]

\* The directory made anew around the one file.
PutFileAlone(dir, name, data) == [n \in {name} |-> data]

\* A directory with the file `name` holding `data`, created or overwritten.
PutFile(dir, name, data) ==
    [n \in (DOMAIN dir) \cup {name} |-> IF n = name THEN data ELSE dir[n]]

\* glob.glob('json-history/*.json'): the names the pattern matches.
GlobMatches(dir) == { n \in DOMAIN dir : n[Len(n)] = ".json" /\ Len(n) >= 2 }

\* The orders a directory scan can list a set of names in.
Orders(S) ==
    { s \in [1..Cardinality(S) -> S] : \A i, j \in 1..Cardinality(S) : s[i] = s[j] => i = j }

\* ----------------------------------------------------------------- state

VARIABLES
    pc,                        \* the cell of the script the run is at
    error,                     \* the exception that ended the run, or "none"
    today,                     \* the day the clock shows
    runs,                      \* invocations so far
    response,                  \* requests.get's result
    countries_json,
    history_file_path,
    json_fnames,
    countries_dfs,
    countries_history,
    top_10_countries,
    top_10_countries_history,
    canonical,                 \* the file countries.json
    hist,                      \* the directory json-history/: name -> text
    csv,                       \* the file countries-history.csv
    svg,                       \* the file top-10-countries.svg
    before,                    \* the files as the run found them
    captured,                  \* per day, the payload of the last run that wrote its snapshot
    csv_log,                   \* the last two writes of csv since json-history/ changed
    run_day,                   \* the day datetime.now() gave this run, 0 before it is read
    inv,                       \* two invocations at once: each one's place in lines 28-34
    overlapped,                \* whether their writes have overlapped in time
    last_opener                \* the invocation that opened countries.json last

locals ==
    << response, countries_json, history_file_path, json_fnames, countries_dfs,
       countries_history, top_10_countries, top_10_countries_history >>

files == << canonical, hist, csv, svg >>

conc == << inv, overlapped, last_opener >>

vars == << pc, error, today, runs, locals, files, before, captured, csv_log, run_day, conc >>

FilesNow == [canonical |-> canonical, hist |-> hist, csv |-> csv, svg |-> svg]

NoCapture == [has |-> FALSE, value |-> << >>]

NoInvocations == << >>

\* A fresh interpreter: no name is bound yet.
FreshLocals ==
    /\ response = NoResponse
    /\ countries_json = << >>
    /\ history_file_path = << >>
    /\ json_fnames = << >>
    /\ countries_dfs = << >>
    /\ countries_history = << >>
    /\ top_10_countries = << >>
    /\ top_10_countries_history = << >>

\* The first invocation, in a checkout that holds no data file yet.
Init ==
    /\ pc = "start"
    /\ error = "none"
    /\ today = 1
    /\ runs = 1
    /\ FreshLocals
    /\ canonical = NoFile
    /\ hist = EmptyDir
    /\ csv = NoFile
    /\ svg = NoFile
    /\ before = [canonical |-> NoFile, hist |-> EmptyDir, csv |-> NoFile, svg |-> NoFile]
    /\ captured = [d \in 1..NumDays |-> NoCapture]
    /\ csv_log = << >>
    /\ run_day = 0
    /\ inv = NoInvocations
    /\ overlapped = FALSE
    /\ last_opener = 0

\* An uncaught exception: the interpreter exits.
Raise(e) == pc' = "failed" /\ error' = e

\* ------------------------------------------------------------- the cells

\* The fetch without its assert on the status code.
FetchSucceedsUnchecked(r) == ~r.raised /\ r.is_json

\* Lines 17-23: requests.get raised nothing, the assert passed, response.json()
\* parsed the body.
FetchSucceeds(r) == ~r.raised /\ r.status = HttpOk /\ r.is_json

\* Lines 15-23: fetch the latest country statistics.
Fetch ==
    /\ pc = "start"
    /\ \E r \in Responses :
         /\ response' = r
         /\ IF FetchSucceeds(r)
            THEN /\ countries_json' = r.value
                 /\ pc' = "fetched"
                 /\ error' = error
            ELSE /\ Raise("fetch")
                 /\ countries_json' = countries_json
    /\ UNCHANGED << today, runs, history_file_path, json_fnames, countries_dfs,
                    countries_history, top_10_countries, top_10_countries_history,
                    files, before, captured, csv_log, run_day, conc >>

\* A copy that leaves a file that is already there alone.
CopyKeepsExisting(dir, path, src) ==
    IF BaseName(path) \in DOMAIN dir THEN dir ELSE PutFile(dir, BaseName(path), src.data)

\* shutil.copy('countries.json', history_file_path): the directory afterwards.
CopyToHistory(dir, path, src) == PutFile(dir, BaseName(path), src.data)

\* The two steps in the other order: the copy taken before countries.json is
\* written.
SnapshotWriterCopiesFirst ==
    /\ pc = "fetched"
    /\ history_file_path' = HistoryFilePath(today)
    /\ hist' = PutFile(hist, BaseName(history_file_path'), canonical.data)
    /\ canonical' = File(JsonDump(countries_json))
    /\ captured' = [captured EXCEPT ![today] = [has |-> TRUE, value |-> countries_json]]
    /\ pc' = "written"
    /\ UNCHANGED << error, today, runs, response, countries_json, json_fnames,
                    countries_dfs, countries_history, top_10_countries,
                    top_10_countries_history, csv, svg, before >>
    /\ csv_log' = << >>
    /\ run_day' = today
    /\ UNCHANGED conc

\* Lines 25-34: write countries.json, and copy it into json-history/ under
\* today's date.
SnapshotWriter ==
    /\ pc = "fetched"
    /\ canonical' = File(JsonDump(countries_json))
    /\ history_file_path' = HistoryFilePath(today)
    /\ hist' = CopyToHistory(hist, history_file_path', canonical')
    /\ captured' = [captured EXCEPT ![today] = [has |-> TRUE, value |-> countries_json]]
    /\ pc' = "written"
    /\ UNCHANGED << error, today, runs, response, countries_json, json_fnames,
                    countries_dfs, countries_history, top_10_countries,
                    top_10_countries_history, csv, svg, before >>
    /\ csv_log' = << >>
    /\ run_day' = today
    /\ UNCHANGED conc

\* Lines 36-46: read every snapshot of json-history/, in the order the scan
\* lists them. A file read_json cannot read, or without the two columns, raises.
ReadFrames(dir, fnames) ==
    [i \in 1..Len(fnames) |-> ReadFrame(dir[BaseName(fnames[i])], fnames[i])]

\* A reader that skips the files it cannot read.
ReadHistorySkipping ==
    /\ pc = "written"
    /\ \E order \in Orders({ n \in GlobMatches(hist) : Readable(hist[n]) }) :
         json_fnames' = [i \in 1..Len(order) |-> << "json-history", "/" >> \o order[i]]
    /\ countries_dfs' = ReadFrames(hist, json_fnames')
    /\ pc' = "read"
    /\ error' = error
    /\ UNCHANGED << today, runs, response, countries_json, history_file_path,
                    countries_history, top_10_countries, top_10_countries_history,
                    files, before, captured, csv_log, run_day, conc >>

ReadHistory ==
    /\ pc = "written"
    /\ \E order \in Orders(GlobMatches(hist)) :
         json_fnames' = [i \in 1..Len(order) |-> << "json-history", "/" >> \o order[i]]
    /\ IF \A n \in GlobMatches(hist) : Readable(hist[n])
       THEN /\ countries_dfs' = ReadFrames(hist, json_fnames')
            /\ pc' = "read"
            /\ error' = error
       ELSE /\ Raise("read_json")
            /\ countries_dfs' = countries_dfs
    /\ UNCHANGED << today, runs, response, countries_json, history_file_path,
                    countries_history, top_10_countries, top_10_countries_history,
                    files, before, captured, csv_log, run_day, conc >>

\* A concat that takes an empty list for an empty table.
CanConcatNothing(dfs) == TRUE

\* pd.concat(countries_dfs) has something to concatenate.
CanConcat(dfs) == dfs # << >>

\* Lines 49-60: one table of all snapshots, dated from the file names, sorted
\* by date and country. pd.concat raises on an empty list, pd.to_datetime on
\* a name that starts with no date.
Aggregate ==
    /\ pc = "read"
    /\ IF ~CanConcat(countries_dfs)
       THEN Raise("concat") /\ countries_history' = countries_history
       ELSE LET dated == WithDate(Concat(countries_dfs))
            IN  IF \E i \in 1..Len(dated) : dated[i].date = NaT
                THEN Raise("to_datetime") /\ countries_history' = countries_history
                ELSE /\ countries_history' = SortValues(dated)
                     /\ pc' = "aggregated"
                     /\ error' = error
    /\ UNCHANGED << today, runs, response, countries_json, history_file_path,
                    json_fnames, countries_dfs, top_10_countries,
                    top_10_countries_history, files, before, captured, csv_log, run_day, conc >>

\* Lines 62-63: countries_history.to_csv('countries-history.csv', index=False)
WriteCsv ==
    /\ pc = "aggregated"
    /\ csv' = File(ToCsv(countries_history))
    /\ csv_log' = LET log == Append(csv_log, [fnames |-> json_fnames, data |-> csv'.data])
                   IN  IF Len(log) > 2 THEN Tail(log) ELSE log
    /\ pc' = "csv"
    /\ UNCHANGED << error, today, runs, locals, canonical, hist, svg, before, captured,
                    run_day, conc >>

\* ------------------------------------------------------------ the chart

\* countries_history['date'].max()
LatestDate(rows) ==
    CHOOSE d \in {rows[i].date : i \in 1..Len(rows)} :
        \A i \in 1..Len(rows) : ~DateLess(d, rows[i].date)

\* .query("date == @latest_date")
AtDate(rows, d) == SelectSeq(rows, LAMBDA r : r.date = d)

\* The sort without ascending=False.
SortByCountAsc(rows) ==
    LET n == Len(rows)
        pos == [i \in 1..n |->
                   1 + Cardinality({j \in 1..n :
                           \/ rows[j].location_count < rows[i].location_count
                           \/ rows[j].location_count = rows[i].location_count /\ j < i})]
    IN  [k \in 1..n |-> rows[CHOOSE i \in 1..n : pos[i] = k]]

\* .sort_values('location_count', ascending=False), equal counts left in the
\* order they had.
SortByCountDesc(rows) ==
    LET n == Len(rows)
        pos == [i \in 1..n |->
                   1 + Cardinality({j \in 1..n :
                           \/ rows[j].location_count > rows[i].location_count
                           \/ rows[j].location_count = rows[i].location_count /\ j < i})]
    IN  [k \in 1..n |-> rows[CHOOSE i \in 1..n : pos[i] = k]]

\* .head(k) of the sorted rows: the first k. The sort on one column is numpy's
\* quicksort, which promises no order among equal counts: when the cut falls
\* inside a run of equal counts, any of them may be the ones before it.
HeadChoices(sorted, k) ==
    IF Len(sorted) <= k
    THEN { sorted }
    ELSE LET cut == sorted[k].location_count
             tied == { i \in 1..Len(sorted) : sorted[i].location_count = cut }
             sure == (1..k) \ tied
             kept(T) == SelectSeq([i \in 1..Len(sorted) |-> i], LAMBDA i : i \in sure \cup T)
         IN  { [n \in 1..k |-> sorted[kept(T)[n]]]
               : T \in { T \in SUBSET tied : Cardinality(T) = k - Cardinality(sure) } }

\* ["country"] of the rows picked.
CountryColumn(picked) == [i \in 1..Len(picked) |-> picked[i].country]

\* .query("country in @top_10_countries")
InCountries(rows, names) ==
    SelectSeq(rows, LAMBDA r : \E i \in 1..Len(names) : names[i] = r.country)

\* pd.Categorical(..., categories=top_10_countries) raises on a category
\* named twice.
UniqueCategories(names) == \A i, j \in 1..Len(names) : names[i] = names[j] => i = j

\* Lines 72-86: the ten countries with the most locations at the latest date,
\* and their rows of the whole history.
TopCountries ==
    /\ pc = "csv"
    /\ LET latest == AtDate(countries_history, LatestDate(countries_history))
       IN  \E picked \in HeadChoices(SortByCountDesc(latest), TopN) :
               top_10_countries' = CountryColumn(picked)
    /\ IF UniqueCategories(top_10_countries')
       THEN /\ top_10_countries_history' = InCountries(countries_history, top_10_countries')
            /\ pc' = "top"
            /\ error' = error
       ELSE /\ Raise("categorical")
            /\ top_10_countries_history' = top_10_countries_history
    /\ UNCHANGED << today, runs, response, countries_json, history_file_path,
                    json_fnames, countries_dfs, countries_history, files, before,
                    captured, csv_log, run_day, conc >>

\* Lines 89-113: the chart, its subtitle the latest date, one series per
\* country, saved as top-10-countries.svg.
Plot ==
    /\ pc = "top"
    /\ svg' = File(<< StrfDate(LatestDate(countries_history)), top_10_countries,
                      top_10_countries_history >>)
    /\ pc' = "done"
    /\ UNCHANGED << error, today, runs, locals, canonical, hist, csv, before,
                    captured, csv_log, run_day, conc >>

\* ------------------------------------------------------ the environment

\* The script is invoked again (a scheduled job, one invocation at a time).
NextRun ==
    /\ pc \in {"done", "failed"}
    /\ runs < MaxRuns
    /\ runs' = runs + 1
    /\ pc' = "start"
    /\ error' = "none"
    /\ response' = NoResponse
    /\ countries_json' = << >>
    /\ history_file_path' = << >>
    /\ json_fnames' = << >>
    /\ countries_dfs' = << >>
    /\ countries_history' = << >>
    /\ top_10_countries' = << >>
    /\ top_10_countries_history' = << >>
    /\ before' = FilesNow
    /\ run_day' = 0
    /\ UNCHANGED << today, files, captured, csv_log, conc >>

\* Midnight passes.
Tick ==
    /\ today < NumDays
    /\ today' = today + 1
    /\ UNCHANGED << pc, error, runs, locals, files, before, captured, csv_log, run_day, conc >>

Next ==
    \/ Fetch
    \/ SnapshotWriter
    \/ ReadHistory
    \/ Aggregate
    \/ WriteCsv
    \/ TopCountries
    \/ Plot
    \/ NextRun
    \/ Tick

Spec == Init /\ [][Next]_vars

\* ------------------------------------------- the cells after the writer
\* The script is in the percent format: its cells also run one by one. The
\* cells from the directory scan on, run over a json-history/ as it may be
\* found, and run again over the same directory.

\* A snapshot whose writing was cut short.
TruncatedText == SubSeq(JsonDump(Payload3a), 1, 2)

\* A second file of the first day, a .json file named for no date, a file
\* the pattern does not match.
SecondOfDay == StrfDate(DateOf(1)) \o << "_", "b", ".json" >>

NotesName == << "notes", ".json" >>

ReadmeName == << "readme", ".txt" >>

\* The names the script gives the snapshots of the days 1..k.
DayNames(k) == { BaseName(HistoryFilePath(d)) : d \in 1..k }

UpTo(S, k) == { T \in SUBSET S : Cardinality(T) <= k }

AnyDirs ==
    UNION { [S -> { JsonDump(Payload3a), JsonDump(Payload3b), TruncatedText }]
            : S \in UpTo(DayNames(MaxFiles) \cup { SecondOfDay, NotesName }, MaxFiles) }
    \cup { [n \in {ReadmeName} |-> << >>] }

\* Directories as the script's own runs leave them: one file per day, at
\* least the one the run has just written.
ScriptDirs ==
    UNION { [S -> { JsonDump(Payload12), JsonDump(Payload3a), JsonDump(Payload3b) }]
            : S \in UpTo(DayNames(NumDays), MaxFiles) \ { {} } }

InitCells(dirs) ==
    /\ pc = "written"
    /\ error = "none"
    /\ today = 1
    /\ runs = 1
    /\ FreshLocals
    /\ canonical = NoFile
    /\ hist \in dirs
    /\ csv = NoFile
    /\ svg = NoFile
    /\ before = [canonical |-> NoFile, hist |-> hist, csv |-> NoFile, svg |-> NoFile]
    /\ captured = [d \in 1..NumDays |-> NoCapture]
    /\ csv_log = << >>
    /\ run_day = 0
    /\ inv = NoInvocations
    /\ overlapped = FALSE
    /\ last_opener = 0

\* The cells from the scan to the CSV are run once more.
RunCellsAgain ==
    /\ pc \in {"csv", "failed"}
    /\ runs < MaxPasses
    /\ runs' = runs + 1
    /\ pc' = "written"
    /\ error' = "none"
    /\ response' = NoResponse
    /\ countries_json' = << >>
    /\ history_file_path' = << >>
    /\ json_fnames' = << >>
    /\ countries_dfs' = << >>
    /\ countries_history' = << >>
    /\ top_10_countries' = << >>
    /\ top_10_countries_history' = << >>
    /\ before' = FilesNow
    /\ UNCHANGED << today, files, captured, csv_log, run_day, conc >>

NextAgg ==
    \/ ReadHistory
    \/ Aggregate
    \/ WriteCsv
    \/ RunCellsAgain

InitAgg == InitCells(AnyDirs)

SpecAgg == InitAgg /\ [][NextAgg]_vars

NextTop ==
    \/ ReadHistory
    \/ Aggregate
    \/ WriteCsv
    \/ TopCountries
    \/ Plot

InitTop == InitCells(ScriptDirs)

SpecTop == InitTop /\ [][NextTop]_vars

\* ------------------------------------------------- two invocations at once
\* Lines 28-34 as the system calls they make. open(..., 'w') empties the file;
\* the text goes out in writes at the descriptor's own offset; shutil.copy
\* opens the source, empties the destination and moves the text block by
\* block. A chunk of the file stands for one such block.

Procs == {1, 2}

Payload1 == << [country |-> "US", location_count |-> 805] >>

\* A write past the end of the file leaves a gap the system fills with zeros.
Nul == [t |-> "nul", kv |-> << >>]

\* An open for update, which leaves the text that is there.
OpenKeeping(file) == IF file.exists THEN file ELSE File(<< >>)

\* open('countries.json', 'w'), and the open of shutil.copy's destination:
\* the file is created, or cut to nothing.
OpenTruncating(file) == File(<< >>)

\* write(2) of one block at offset `off` (counted in blocks).
WriteAt(data, off, chunk) ==
    IF off < Len(data)
    THEN [data EXCEPT ![off + 1] = chunk]
    ELSE data \o [i \in 1..(off - Len(data)) |-> Nul] \o << chunk >>

Writing(p) == inv[p].pc \notin {"fetched", "written"}

\* Two invocations of the same day, each with the payload it fetched.
InitConc ==
    /\ pc = "start"
    /\ error = "none"
    /\ today = 1
    /\ runs = 1
    /\ FreshLocals
    /\ canonical = NoFile
    /\ hist = EmptyDir
    /\ csv = NoFile
    /\ svg = NoFile
    /\ before = [canonical |-> NoFile, hist |-> EmptyDir, csv |-> NoFile, svg |-> NoFile]
    /\ captured = [d \in 1..NumDays |-> NoCapture]
    /\ csv_log = << >>
    /\ run_day = 0
    /\ \E p1, p2 \in { Payload1, Payload3a } :
         inv = [p \in Procs |->
                   [pc |-> "fetched", off |-> 0, buf |-> Nul,
                    countries_json |-> IF p = 1 THEN p1 ELSE p2]]
    /\ overlapped = FALSE
    /\ last_opener = 0

others == << pc, error, today, runs, locals, csv, svg, before, captured, csv_log, run_day >>

\* Line 28: with open('countries.json', 'w') as out_file
OpenCanonical(p) ==
    /\ inv[p].pc = "fetched"
    /\ canonical' = OpenTruncating(canonical)
    /\ inv' = [inv EXCEPT ![p].pc = "dumping", ![p].off = 0]
    /\ overlapped' = (overlapped \/ \E q \in Procs \ {p} : Writing(q))
    /\ last_opener' = p
    /\ UNCHANGED << hist, others >>

\* Line 29: json.dump, one block of the text going out
WriteChunk(p) ==
    /\ inv[p].pc = "dumping"
    /\ inv[p].off < Len(JsonDump(inv[p].countries_json))
    /\ canonical' = File(WriteAt(canonical.data, inv[p].off,
                                 JsonDump(inv[p].countries_json)[inv[p].off + 1]))
    /\ inv' = [inv EXCEPT ![p].off = @ + 1]
    /\ UNCHANGED << hist, overlapped, last_opener, others >>

\* Line 29, leaving the with block: the file is closed.
CloseCanonical(p) ==
    /\ inv[p].pc = "dumping"
    /\ inv[p].off = Len(JsonDump(inv[p].countries_json))
    /\ inv' = [inv EXCEPT ![p].pc = "closed"]
    /\ UNCHANGED << canonical, hist, overlapped, last_opener, others >>

\* Lines 32-34: the path, the directory, and shutil.copy opening both files.
CopyOpen(p) ==
    /\ inv[p].pc = "closed"
    /\ LET name == BaseName(HistoryFilePath(today))
       IN  hist' = PutFile(hist, name,
                           OpenTruncating(IF name \in DOMAIN hist
                                          THEN File(hist[name]) ELSE NoFile).data)
    /\ inv' = [inv EXCEPT ![p].pc = "copying", ![p].off = 0]
    /\ UNCHANGED << canonical, overlapped, last_opener, others >>

\* Line 34: shutil.copy reads the next block of countries.json, or its end.
CopyRead(p) ==
    /\ inv[p].pc = "copying"
    /\ IF inv[p].off < Len(canonical.data)
       THEN inv' = [inv EXCEPT ![p].pc = "copied", ![p].buf = canonical.data[inv[p].off + 1]]
       ELSE inv' = [inv EXCEPT ![p].pc = "written"]
    /\ UNCHANGED << canonical, hist, overlapped, last_opener, others >>

\* Line 34: shutil.copy writes the block to the history file.
CopyWrite(p) ==
    /\ inv[p].pc = "copied"
    /\ LET name == BaseName(HistoryFilePath(today))
       IN  hist' = PutFile(hist, name, WriteAt(hist[name], inv[p].off, inv[p].buf))
    /\ inv' = [inv EXCEPT ![p].pc = "copying", ![p].off = @ + 1]
    /\ UNCHANGED << canonical, overlapped, last_opener, others >>

NextConc ==
    \E p \in Procs :
        \/ OpenCanonical(p)
        \/ WriteChunk(p)
        \/ CloseCanonical(p)
        \/ CopyOpen(p)
        \/ CopyRead(p)
        \/ CopyWrite(p)

SpecConc == InitConc /\ [][NextConc]_vars

\* ------------------------------------------------------------- properties

\* The date a file of json-history/ is named for.
NameDate(n) == ToDatetime(DatePrefix(n))

AfterWriter ==
    \/ pc \in {"written", "read", "aggregated", "csv", "top", "done"}
    \/ pc = "failed" /\ error # "fetch"

\* C1: when the fetch fails (an exception of requests.get, a status other than
\* 200, a body that is no JSON) the run ends there, and countries.json, every
\* file of json-history/, countries-history.csv and the chart are as the run
\* found them.
FetchFailureLeavesFiles ==
    (pc # "start" /\ (response.raised \/ response.status # 200 \/ ~response.is_json))
        => (pc = "failed" /\ error = "fetch" /\ FilesNow = before)

\* A run that got a 500 and stopped, in a checkout that had all three files.
FetchFailureSeen ==
    /\ pc = "failed"
    /\ response.status = 500
    /\ before.canonical.exists
    /\ before.csv.exists
    /\ before.hist # EmptyDir

\* C2: json-history/ holds at most one file per day, only for days on which a
\* run wrote its snapshot, and the file of such a day is the payload of the
\* last run that wrote on that day.
OneSnapshotPerDay ==
    /\ \A n1, n2 \in DOMAIN hist : NameDate(n1) = NameDate(n2) => n1 = n2
    /\ \A n \in DOMAIN hist : \E d \in 1..NumDays : captured[d].has /\ NameDate(n) = DateOf(d)
    /\ \A d \in 1..NumDays :
         captured[d].has =>
            \E n \in DOMAIN hist :
                /\ NameDate(n) = DateOf(d)
                /\ IsJsonList(hist[n])
                /\ JsonLoad(hist[n]) = captured[d].value

\* A second run of a day has replaced the day's file by another payload.
SameDayOverwritten ==
    /\ pc = "written"
    /\ \E n \in DOMAIN before.hist : NameDate(n) = DateOf(run_day) /\ before.hist[n] # hist[n]

\* C3: once the snapshot writer is through, the history file of the day it
\* read from the clock has the very text of countries.json, and that text is
\* the serialization of the payload this run fetched.
SnapshotIsCanonical ==
    AfterWriter =>
        /\ canonical.exists
        /\ IsJsonList(canonical.data)
        /\ JsonLoad(canonical.data) = response.value
        /\ \E n \in DOMAIN hist : NameDate(n) = DateOf(run_day) /\ hist[n] = canonical.data

\* A run that replaced an earlier countries.json by a different one.
SnapshotRewritten ==
    /\ pc = "done"
    /\ before.canonical.exists
    /\ before.canonical # canonical

\* C4: no step deletes a file of json-history/, and the only file a step
\* creates or changes is the one named for the day the clock shows.
HistoryAppendOnly ==
    [][ /\ \A n \in DOMAIN hist :
             /\ n \in DOMAIN hist'
             /\ hist'[n] # hist[n] => NameDate(n) = DateOf(today)
        /\ \A n \in (DOMAIN hist') \ (DOMAIN hist) : NameDate(n) = DateOf(today) ]_vars

\* A run has written its snapshot beside the file of an earlier day.
OlderSnapshotKept ==
    /\ pc = "written"
    /\ \E n \in DOMAIN hist : DateLess(NameDate(n), DateOf(run_day))

\* A snapshot that is no table of countries: the text of none of the bodies
\* that have both fields.
BadSnapshot(data) == \A p \in GoodPayloads \cup {Payload12} : data # JsonDump(p)

\* C8: while one file of json-history/ is unreadable or lacks a field, every
\* run stops in the reading step, and countries-history.csv keeps the text
\* it had.
BadSnapshotBlocksCsv ==
    (AfterWriter /\ \E n \in GlobMatches(hist) : BadSnapshot(hist[n]))
        => /\ pc \in {"written", "failed"}
           /\ pc = "failed" => error = "read_json"
           /\ csv = before.csv

\* A later run, its own snapshot good, stopped by the bad file of an earlier
\* day, the CSV of a still earlier run left as it was.
BlockedByOlderSnapshot ==
    /\ pc = "failed"
    /\ error = "read_json"
    /\ csv.exists
    /\ ~BadSnapshot(hist[BaseName(history_file_path)])
    /\ \E n \in DOMAIN hist : BadSnapshot(hist[n]) /\ DateLess(NameDate(n), DateOf(run_day))

\* The countries a snapshot file has a record of.
FileCountries(n) ==
    { hist[n][i].kv[j][2] :
        << i, j >> \in { << i, j >> \in (2..(Len(hist[n]) - 1)) \X (1..Len(KeyOrder)) :
                            j <= Len(hist[n][i].kv) /\ hist[n][i].kv[j][1] = "country" } }

\* Every .json file a whole table named for a date, no two for the same
\* date, all with the same countries.
DistinctDatesSameCountries ==
    /\ GlobMatches(hist) # {}
    /\ \A n \in GlobMatches(hist) : ~BadSnapshot(hist[n]) /\ NameDate(n) # NaT
    /\ \A n1, n2 \in GlobMatches(hist) :
         /\ n1 # n2 => NameDate(n1) # NameDate(n2)
         /\ FileCountries(n1) = FileCountries(n2)

\* C5: over N snapshot files of distinct dates with the same countries, the
\* aggregation succeeds, the table has N times the number of countries rows,
\* the rows of an earlier date come before those of a later date, and within
\* a date the countries ascend, in whatever order the scan listed the files.
TableSortedByDateThenCountry ==
    DistinctDatesSameCountries =>
        /\ pc # "failed"
        /\ pc \in {"aggregated", "csv"} =>
             /\ Len(countries_history) =
                    Cardinality(GlobMatches(hist))
                        * Cardinality(FileCountries(CHOOSE n \in GlobMatches(hist) : TRUE))
             /\ \A i, j \in 1..Len(countries_history) :
                    i < j =>
                        LET a == countries_history[i]
                            b == countries_history[j]
                        IN  \/ DateLess(a.date, b.date)
                            \/ a.date = b.date
                                 /\ CountryRank(a.country) < CountryRank(b.country)

\* The table written from two files the scan listed newest first, their
\* counts different.
NewestListedFirst ==
    /\ pc = "csv"
    /\ DistinctDatesSameCountries
    /\ Len(json_fnames) >= 2
    /\ DateLess(NameDate(json_fnames[2]), NameDate(json_fnames[1]))
    /\ hist[BaseName(json_fnames[1])] # hist[BaseName(json_fnames[2])]

\* C6 as stated: two aggregations of one unchanged directory write the same
\* CSV, whatever the directory holds and whatever order each scan lists it in.
RepeatedAggregationSameCsv ==
    Len(csv_log) = 2 => csv_log[1].data = csv_log[2].data

\* C6 as amended: two aggregations of one unchanged directory write the same
\* CSV when both scans list the files in the same order, or when no two files
\* of the directory are named for the same date.
RepeatedAggregationSameCsvIfOrdered ==
    (/\ Len(csv_log) = 2
     /\ \/ csv_log[1].fnames = csv_log[2].fnames
        \/ \A n1, n2 \in GlobMatches(hist) : NameDate(n1) = NameDate(n2) => n1 = n2)
        => csv_log[1].data = csv_log[2].data

\* Two aggregations that listed the files in different orders and wrote the
\* same CSV.
ReorderedScanSameCsv ==
    /\ Len(csv_log) = 2
    /\ csv_log[1].fnames # csv_log[2].fnames
    /\ csv_log[1].data = csv_log[2].data

\* C7: with no .json file in json-history/ the aggregation raises in
\* pd.concat, and no countries-history.csv is written.
EmptyHistoryFails ==
    GlobMatches(hist) = {} =>
        /\ pc \in {"written", "read", "failed"}
        /\ pc = "failed" => error = "concat"
        /\ ~csv.exists

\* The aggregation over an empty directory has raised.
EmptyHistoryFailed == pc = "failed" /\ hist = EmptyDir

\* C9: the countries picked are countries of the latest date, ten of them or
\* all when there are fewer, none with a smaller count at that date than one
\* left out; the filtered history is the rows of the picked countries, all
\* of them and no others.
TopTenAtLatestDate ==
    /\ pc # "failed"
    /\ pc \in {"top", "done"} =>
         LET rows == countries_history
             latest == { i \in 1..Len(rows) :
                            \A j \in 1..Len(rows) : ~DateLess(rows[i].date, rows[j].date) }
             there == { rows[i].country : i \in latest }
             picked == { top_10_countries[k] : k \in 1..Len(top_10_countries) }
             kept == top_10_countries_history
         IN  /\ picked \subseteq there
             /\ Cardinality(picked) = IF Cardinality(there) < 10 THEN Cardinality(there) ELSE 10
             /\ \A i, j \in latest :
                    (rows[i].country \in picked /\ rows[j].country \notin picked)
                        => rows[i].location_count >= rows[j].location_count
             /\ \A k \in 1..Len(kept) :
                    kept[k].country \in picked /\ \E i \in 1..Len(rows) : rows[i] = kept[k]
             /\ \A i \in 1..Len(rows) :
                    rows[i].country \in picked => \E k \in 1..Len(kept) : kept[k] = rows[i]
             /\ Len(kept) = Cardinality({ i \in 1..Len(rows) : rows[i].country \in picked })

\* Ten picked out of twelve, and a country of an earlier snapshot that the
\* latest one lacks left out.
TenOfTwelvePicked ==
    /\ pc = "done"
    /\ Len(top_10_countries) = 10
    /\ Cardinality({ r \in { countries_history[i] : i \in 1..Len(countries_history) } :
                        r.date = LatestDate(countries_history) }) = 12
    /\ \E i \in 1..Len(countries_history) : countries_history[i].country = "ZA"
    /\ \A k \in 1..Len(top_10_countries) : top_10_countries[k] # "ZA"

BothWritten == inv # NoInvocations /\ \A p \in Procs : inv[p].pc = "written"

DayFile == hist[BaseName(HistoryFilePath(today))]

\* C10 as stated: when both invocations are through, the day's history file
\* is the whole text of the payload of one of them.
DayFileIsOneWholePayload ==
    BothWritten => \E p \in Procs : DayFile = JsonDump(inv[p].countries_json)

\* C10 as amended: the writes are not one replace of the file. When both
\* invocations are through, every block of the day's history file is the
\* block at that place of one of the two texts or a gap of zeros, and the
\* file is the whole text of the invocation that opened countries.json last
\* when the two did not overlap in lines 28-34.
DayFileBlockwiseLastWriter ==
    BothWritten =>
        /\ \A i \in 1..Len(DayFile) :
              \/ DayFile[i] = Nul
              \/ \E p \in Procs :
                    /\ i <= Len(JsonDump(inv[p].countries_json))
                    /\ DayFile[i] = JsonDump(inv[p].countries_json)[i]
        /\ ~overlapped => DayFile = JsonDump(inv[last_opener].countries_json)

\* Two invocations with different payloads that overlapped, both through, the
\* day's file the whole text of the one that opened countries.json first.
OverlappedFirstOpenerWon ==
    /\ BothWritten
    /\ overlapped
    /\ inv[1].countries_json # inv[2].countries_json
    /\ \E p \in Procs \ {last_opener} : DayFile = JsonDump(inv[p].countries_json)

====
